---- MODULE Spec2Model ----
(***************************************************************************)
(* Carbon calculator: the city registry (RoutesDB over ROUTES_DATA), the   *)
(* emission / savings / credit engine (Calculator over CONFIG) and the     *)
(* calls made on them.                                                     *)
(*                                                                         *)
(* JavaScript Numbers.  A Number is modelled as a record [k, n, d]:        *)
(*   k = "fin"       the exact rational n / d (d > 0, lowest terms)        *)
(*   k = "NaN"       NaN                                                   *)
(*   k = "Infinity"  +Infinity (n = 1) or -Infinity (n = -1)               *)
(* The calculator's arithmetic is exact on these rationals: the            *)
(* relative error of an IEEE-754 double operation (2^-53) is not modelled, *)
(* so a product that is an exact decimal tie (5 km * 0.089 = 0.445) is     *)
(* exactly that tie here.  Math.round is the JavaScript one: the nearest   *)
(* integer, a tie going towards +Infinity.  Division by zero, NaN and the  *)
(* infinities follow IEEE-754 (all zeros here are +0).  The trigonometry   *)
(* of the haversine formula works in fixed point at resolution 1 / Scale,  *)
(* rounding after every operation as a double operation does.              *)
(***************************************************************************)
EXTENDS Integers, Sequences, FiniteSets, TLC

VARIABLES
    ROUTES_DATA,        \* city registry: ordered <<[key, value |-> [lat, lng]]>>
    EMISSION_FACTORS,   \* CONFIG.EMISSION_FACTORS: ordered <<[key, value]>>
    CARBON_CREDIT,      \* CONFIG.CARBON_CREDIT
    call,               \* the last call made: [fn, args]
    result,             \* what that call returned
    previous,           \* an earlier call and its result, kept by the caller
    originInput,        \* input[name="origin"].value
    destinationInput,   \* input[name="destination"].value
    distanceInput,      \* input[name="distance"]: [value, readOnly]
    manualCheckbox,     \* input[name="manual-distance"]: [checked]
    helperText,         \* .calculator__help: textContent
    transport,          \* input[name="transport"]:checked, its value
    submitButton,       \* button[type="submit"]: [disabled, textContent, originalText]
    hidden,             \* the ids of the sections that carry the class 'hidden'
    content,            \* what the three *-content elements show
    timer,              \* the callback handed to setTimeout, with what it captured
    alert,              \* the message of the alert raised by the last run of the submit
                        \* handler or of its callback, "" when it raised none
    invoked             \* the Calculator calls made by the last delayed calculation

\* the configuration tables and the city registry
tables == <<ROUTES_DATA, EMISSION_FACTORS, CARBON_CREDIT>>

\* the fields of the form
form == <<originInput, destinationInput, distanceInput, manualCheckbox, helperText,
          transport>>

\* the rest of the page and what the submit handler leaves behind
page == <<submitButton, hidden, content, timer, alert, invoked>>

vars == <<tables, call, result, previous, form, page>>

(***************************************************************************)
(* Numbers                                                                 *)
(***************************************************************************)
Abs(i) == IF i < 0 THEN -i ELSE i

Sign(i) == IF i < 0 THEN -1 ELSE IF i > 0 THEN 1 ELSE 0

RECURSIVE GCD(_, _)
GCD(a, b) == IF b = 0 THEN a ELSE GCD(b, a % b)

\* the rational n / d in lowest terms, d > 0
Fin(n, d) ==
    LET g == GCD(Abs(n), d)
    IN  [k |-> "fin", n |-> n \div g, d |-> d \div g]

Int2Num(i) == [k |-> "fin", n |-> i, d |-> 1]

NaN == [k |-> "NaN", n |-> 0, d |-> 1]

Infinity(s) == [k |-> "Infinity", n |-> s, d |-> 1]

Zero == Int2Num(0)

Hundred == Int2Num(100)

IsFinite(x) == x.k = "fin"

IsNaN(x) == x.k = "NaN"

\* a JavaScript number: finite, NaN or an infinity
IsNumber(v) == v.k \in {"fin", "NaN", "Infinity"}

\* a * b
Mul(a, b) ==
    IF IsNaN(a) \/ IsNaN(b) THEN NaN
    ELSE IF IsFinite(a) /\ IsFinite(b) THEN Fin(a.n * b.n, a.d * b.d)
    ELSE IF a.n = 0 \/ b.n = 0 THEN NaN
    ELSE Infinity(Sign(a.n) * Sign(b.n))

\* a / b
Div(a, b) ==
    IF IsNaN(a) \/ IsNaN(b) THEN NaN
    ELSE IF IsFinite(a) /\ IsFinite(b)
         THEN IF b.n # 0 THEN Fin(Sign(b.n) * a.n * b.d, Abs(b.n) * a.d)
              ELSE IF a.n = 0 THEN NaN
              ELSE Infinity(Sign(a.n))
    ELSE IF IsFinite(a) THEN Zero
    ELSE IF IsFinite(b) THEN Infinity(a.n * (IF b.n < 0 THEN -1 ELSE 1))
    ELSE NaN

\* a + b
Add(a, b) ==
    IF IsNaN(a) \/ IsNaN(b) THEN NaN
    ELSE IF IsFinite(a) /\ IsFinite(b) THEN Fin(a.n * b.d + b.n * a.d, a.d * b.d)
    ELSE IF IsFinite(a) THEN b
    ELSE IF IsFinite(b) THEN a
    ELSE IF a.n = b.n THEN a
    ELSE NaN

Neg(a) == [a EXCEPT !.n = -a.n]

\* a - b
Sub(a, b) == Add(a, Neg(b))

\* a < b, a > b (false when either is NaN)
Lt(a, b) ==
    /\ ~IsNaN(a)
    /\ ~IsNaN(b)
    /\ IF IsFinite(a) /\ IsFinite(b) THEN a.n * b.d < b.n * a.d
       ELSE IF IsFinite(a) THEN b.n > 0
       ELSE IF IsFinite(b) THEN a.n < 0
       ELSE a.n < b.n

Gt(a, b) == Lt(b, a)

\* Math.round(x): nearest integer, ties towards +Infinity
MathRound(x) ==
    IF IsFinite(x) THEN Int2Num((2 * x.n + x.d) \div (2 * x.d)) ELSE x

\* Math.round(x * 100) / 100
Round2(x) == Div(MathRound(Mul(x, Hundred)), Hundred)

(***************************************************************************)
(* JavaScript objects with string keys, in insertion order                 *)
(***************************************************************************)
Undefined == [k |-> "undefined", n |-> 0, d |-> 1]

Keys(obj) == [i \in 1..Len(obj) |-> obj[i].key]

HasOwn(obj, key) == \E i \in 1..Len(obj) : obj[i].key = key

OwnValue(obj, key) == obj[CHOOSE i \in 1..Len(obj) : obj[i].key = key].value

(***************************************************************************)
(* CONFIG                                                                  *)
(***************************************************************************)
InitialEmissionFactors ==
    << [key |-> "bicycle", value |-> Zero],
       [key |-> "car",     value |-> Fin(12, 100)],
       [key |-> "bus",     value |-> Fin(89, 1000)],
       [key |-> "truck",   value |-> Fin(96, 100)] >>

InitialCarbonCredit ==
    [KG_PER_CREDIT |-> Int2Num(1000),
     PRICE_MIN_BRL |-> Int2Num(50),
     PRICE_MAX_BRL |-> Int2Num(150)]

\* CONFIG.EMISSION_FACTORS[transportMode]: a missing key reads undefined,
\* which arithmetic converts to NaN
Factor(transportMode) ==
    IF HasOwn(EMISSION_FACTORS, transportMode)
    THEN OwnValue(EMISSION_FACTORS, transportMode)
    ELSE NaN

(***************************************************************************)
(* Calculator                                                              *)
(***************************************************************************)
\* calculateEmission without the rounding to 2 decimals
calculateEmission_Unrounded(distanceKm, transportMode) ==
    Mul(distanceKm, Factor(transportMode))

\* the emission rounded to 1 decimal
calculateEmission_OneDecimal(distanceKm, transportMode) ==
    LET factor   == Factor(transportMode)
        emission == Mul(distanceKm, factor)
    IN  Div(MathRound(Mul(emission, Int2Num(10))), Int2Num(10))

calculateEmission(distanceKm, transportMode) ==
    LET factor   == Factor(transportMode)
        emission == Mul(distanceKm, factor)
    IN  Round2(emission)

\* an insertion that also moves in front of an entry of equal emission
RECURSIVE InsertByEmission_TiesMove(_, _)
InsertByEmission_TiesMove(sorted, e) ==
    IF sorted = <<>> THEN <<e>>
    ELSE LET last == sorted[Len(sorted)]
         IN  IF ~Lt(Sub(last.emission, e.emission), Zero)
             THEN Append(InsertByEmission_TiesMove(SubSeq(sorted, 1, Len(sorted) - 1), e),
                         last)
             ELSE Append(sorted, e)

\* Array.prototype.sort((a, b) => a.emission - b.emission): stable; b moves
\* in front of a only when the comparator is > 0
RECURSIVE InsertByEmission(_, _)
InsertByEmission(sorted, e) ==
    IF sorted = <<>> THEN <<e>>
    ELSE LET last == sorted[Len(sorted)]
         IN  IF Gt(Sub(last.emission, e.emission), Zero)
             THEN Append(InsertByEmission(SubSeq(sorted, 1, Len(sorted) - 1), e), last)
             ELSE Append(sorted, e)

RECURSIVE SortByEmission(_)
SortByEmission(results) ==
    IF results = <<>> THEN <<>>
    ELSE InsertByEmission(SortByEmission(SubSeq(results, 1, Len(results) - 1)),
                          results[Len(results)])

\* the ratio taken the wrong way round
percentageVsCar_Inverted(emission, carEmission) ==
    Mul(Div(carEmission, emission), Hundred)

\* (emission / carEmission) * 100
percentageVsCar(emission, carEmission) == Mul(Div(emission, carEmission), Hundred)

calculateAllModes(distanceKm) ==
    LET carEmission == calculateEmission(distanceKm, "car")
        results ==
            [i \in 1..Len(EMISSION_FACTORS) |->
                LET mode     == EMISSION_FACTORS[i].key
                    emission == calculateEmission(distanceKm, mode)
                IN  [mode |-> mode,
                     emission |-> emission,
                     percentageVsCar |->
                         Round2(percentageVsCar(emission, carEmission))]]
    IN  SortByEmission(results)

\* the saving taken as emission - baseline
calculateSavings_SignFlipped(emission, baselineEmission) ==
    LET savedKg    == Sub(emission, baselineEmission)
        percentage == Mul(Div(savedKg, baselineEmission), Hundred)
    IN  [savedKg |-> Round2(savedKg), percentage |-> Round2(percentage)]

calculateSavings(emission, baselineEmission) ==
    LET savedKg    == Sub(baselineEmission, emission)
        percentage == Mul(Div(savedKg, baselineEmission), Hundred)
    IN  [savedKg |-> Round2(savedKg), percentage |-> Round2(percentage)]

\* the credits cut down to 2 decimals (Math.floor for Math.round)
calculateCarbonCredits_Floored(emissionKg) ==
    LET credits == Mul(Div(emissionKg, CARBON_CREDIT.KG_PER_CREDIT), Hundred)
    IN  IF IsFinite(credits) THEN Fin(credits.n \div credits.d, 100) ELSE credits

calculateCarbonCredits(emissionKg) ==
    LET credits == Div(emissionKg, CARBON_CREDIT.KG_PER_CREDIT)
    IN  Round2(credits)

\* the average taken from the rounded min and max
estimateCreditPrice_FromRounded(credits) ==
    LET min == Round2(Mul(credits, CARBON_CREDIT.PRICE_MIN_BRL))
        max == Round2(Mul(credits, CARBON_CREDIT.PRICE_MAX_BRL))
    IN  [min |-> min, max |-> max,
         average |-> Round2(Div(Add(min, max), Int2Num(2)))]

\* the average without the division by 2
estimateCreditPrice_NoHalving(credits) ==
    LET min     == Mul(credits, CARBON_CREDIT.PRICE_MIN_BRL)
        max     == Mul(credits, CARBON_CREDIT.PRICE_MAX_BRL)
        average == Add(min, max)
    IN  [min |-> Round2(min), max |-> Round2(max), average |-> Round2(average)]

estimateCreditPrice(credits) ==
    LET min     == Mul(credits, CARBON_CREDIT.PRICE_MIN_BRL)
        max     == Mul(credits, CARBON_CREDIT.PRICE_MAX_BRL)
        average == Div(Add(min, max), Int2Num(2))
    IN  [min |-> Round2(min), max |-> Round2(max), average |-> Round2(average)]

(***************************************************************************)
(* Fixed-point arithmetic of the haversine formula                         *)
(***************************************************************************)
\* resolution of a fixed-point value: x stands for x / Scale
Scale == 10000000

\* <<q, r>> with a * b = q * c + r and 0 <= r < c, for 0 <= a < c, b >= 0,
\* without forming a * b: b is taken 5 bits at a time
RECURSIVE MulModQR(_, _, _)
MulModQR(a, b, c) ==
    IF b = 0 THEN <<0, 0>>
    ELSE LET h == MulModQR(a, b \div 32, c)
             t == 32 * h[2] + a * (b % 32)
         IN  <<32 * h[1] + (t \div c), t % c>>

\* <<q, r>> with a * b = q * c + r and 0 <= r < c, for a, b >= 0 and c > 0
MulDivQR(a, b, c) ==
    LET h == MulModQR(a % c, b, c)
    IN  <<(a \div c) * b + h[1], h[2]>>

\* a * b / c rounded to the nearest integer, symmetric in sign
MulDivR(a, b, c) ==
    LET qr == MulDivQR(Abs(a), Abs(b), Abs(c))
        q  == qr[1] + (IF 2 * qr[2] >= Abs(c) THEN 1 ELSE 0)
    IN  Sign(a) * Sign(b) * Sign(c) * q

\* a * b / Scale rounded to the nearest integer, symmetric in sign, without
\* forming a * b: both factors are split at 10^4, and Scale = 1000 * 10^4
FMul(a, b) ==
    LET a1   == Abs(a) \div 10000
        a0   == Abs(a) % 10000
        b1   == Abs(b) \div 10000
        b0   == Abs(b) % 10000
        low  == a0 * b0
        mid  == a1 * b0 + a0 * b1 + (low \div 10000)
        rest == (mid % 1000) * 10000 + (low % 10000)
        q    == 10 * a1 * b1 + (mid \div 1000) + (IF 2 * rest >= Scale THEN 1 ELSE 0)
    IN  Sign(a) * Sign(b) * q

FDiv(a, b) == MulDivR(a, Scale, b)

\* a finite Number as a fixed-point value
ToFixed(x) == MulDivR(x.n, Scale, x.d)

\* Math.PI
PI == 31415927

\* Math.sin(x): x - x^3/3! + x^5/5! - ...
RECURSIVE SinSeries(_, _, _)
SinSeries(x2, term, k) ==
    IF term = 0 THEN 0
    ELSE term + SinSeries(x2, -MulDivR(FMul(term, x2), 1, (2 * k) * (2 * k + 1)), k + 1)

MathSin(x) == SinSeries(FMul(x, x), x, 1)

\* Math.cos(x): 1 - x^2/2! + x^4/4! - ...
RECURSIVE CosSeries(_, _, _)
CosSeries(x2, term, k) ==
    IF term = 0 THEN 0
    ELSE term + CosSeries(x2, -MulDivR(FMul(term, x2), 1, (2 * k - 1) * (2 * k)), k + 1)

MathCos(x) == CosSeries(FMul(x, x), Scale, 1)

\* Newton's iteration down from r >= sqrt(x * Scale) to the largest r with
\* r * r <= x * Scale, for x > 0
RECURSIVE SqrtNewton(_, _)
SqrtNewton(x, r) ==
    LET next == (r + MulDivQR(x, Scale, r)[1]) \div 2
    IN  IF next >= r THEN r ELSE SqrtNewton(x, next)

\* a start of Newton's iteration, not below sqrt(x * Scale)
SqrtStart(x) ==
    IF x > Scale THEN x
    ELSE IF x > 100000 THEN Scale
    ELSE IF x > 1000 THEN 1000000
    ELSE 100000

\* Math.sqrt(x) for x >= 0, to the nearest
MathSqrt(x) ==
    IF x = 0 THEN 0
    ELSE LET r == SqrtNewton(x, SqrtStart(x))
         IN  IF MulDivQR(r, r + 1, Scale)[1] < x THEN r + 1 ELSE r

\* t - t^3/3 + t^5/5 - ..., power = (-1)^k t^(2k+1)
RECURSIVE AtanSeries(_, _, _)
AtanSeries(t2, power, k) ==
    IF power = 0 THEN 0
    ELSE MulDivR(power, 1, 2 * k + 1) + AtanSeries(t2, -FMul(power, t2), k + 1)

\* atan(t) for t >= 0: halve the angle while t > 2/5, then the series
RECURSIVE Atan(_)
Atan(t) ==
    IF 5 * t > 2 * Scale
    THEN 2 * Atan(FDiv(t, Scale + MathSqrt(Scale + FMul(t, t))))
    ELSE AtanSeries(FMul(t, t), t, 0)

\* Math.atan2(y, x) for y >= 0 and x >= 0
MathAtan2(y, x) ==
    IF y = 0 THEN 0
    ELSE IF x = 0 THEN MulDivR(PI, 1, 2)
    ELSE IF y <= x THEN Atan(FDiv(y, x))
    ELSE MulDivR(PI, 1, 2) - Atan(FDiv(x, y))

(***************************************************************************)
(* ROUTES_DATA and RoutesDB                                                *)
(***************************************************************************)
Null == [k |-> "null", n |-> 0, d |-> 1]

\* an entry of ROUTES_DATA: coordinates in degrees, given in 1/10000 degree
City(name, lat, lng) ==
    [key |-> name,
     value |-> [k |-> "object", lat |-> Fin(lat, 10000), lng |-> Fin(lng, 10000)]]

InitialRoutesData ==
    << City("São Paulo", -235505, -466333),
       City("Rio de Janeiro", -229068, -431729),
       City("Belo Horizonte", -199167, -439345),
       City("Salvador", -129714, -385014),
       City("Brasília", -158267, -478711),
       City("Curitiba", -254284, -492733),
       City("Manaus", -31190, -600217),
       City("Belém", -14554, -485039),
       City("Recife", -80476, -348770),
       City("Fortaleza", -37319, -385267),
       City("Porto Alegre", -300346, -512177),
       City("Goiânia", -157942, -480766),
       City("Campinas", -229068, -470616),
       City("Santos", -239608, -463338),
       City("Sorocaba", -235015, -474584) >>

\* some of the properties every object literal inherits from Object.prototype
ObjectPrototypeKeys ==
    {"constructor", "toString", "valueOf", "hasOwnProperty", "__proto__"}

\* ROUTES_DATA[name]: the own property, else the inherited one (a function or
\* the prototype object, without lat or lng), else undefined
RouteOf(name) ==
    IF HasOwn(ROUTES_DATA, name) THEN OwnValue(ROUTES_DATA, name)
    ELSE IF name \in ObjectPrototypeKeys THEN [k |-> "inherited"]
    ELSE Undefined

\* o.lat, o.lng
LatOf(o) == IF o.k = "object" THEN o.lat ELSE Undefined

LngOf(o) == IF o.k = "object" THEN o.lng ELSE Undefined

\* R = 6371, Earth's radius in km
EarthRadiusKm == 6371

\* x * Math.PI / 180, on fixed-point degrees
TimesPiOver180(x) == MulDivR(FMul(x, PI), 1, 180)

\* a = sin(dLat/2)^2 + cos(lat1) cos(lat2) sin(dLon/2)^2, with the swap of
\* lat2 for lat1 in the second cosine
HaversineA_CosLat1Twice(lat1, lon1, lat2, lon2) ==
    LET dLat    == TimesPiOver180(ToFixed(lat2) - ToFixed(lat1))
        dLon    == TimesPiOver180(ToFixed(lon2) - ToFixed(lon1))
        sinDLat == MathSin(MulDivR(dLat, 1, 2))
        sinDLon == MathSin(MulDivR(dLon, 1, 2))
        cosLat1 == MathCos(TimesPiOver180(ToFixed(lat1)))
        cosLat2 == MathCos(TimesPiOver180(ToFixed(lat1)))
    IN  FMul(sinDLat, sinDLat) + FMul(FMul(FMul(cosLat1, cosLat2), sinDLon), sinDLon)

\* a = sin(dLat/2)^2 + cos(lat1) cos(lat2) sin(dLon/2)^2
HaversineA(lat1, lon1, lat2, lon2) ==
    LET dLat    == TimesPiOver180(ToFixed(lat2) - ToFixed(lat1))
        dLon    == TimesPiOver180(ToFixed(lon2) - ToFixed(lon1))
        sinDLat == MathSin(MulDivR(dLat, 1, 2))
        sinDLon == MathSin(MulDivR(dLon, 1, 2))
        cosLat1 == MathCos(TimesPiOver180(ToFixed(lat1)))
        cosLat2 == MathCos(TimesPiOver180(ToFixed(lat2)))
    IN  FMul(sinDLat, sinDLat) + FMul(FMul(FMul(cosLat1, cosLat2), sinDLon), sinDLon)

\* the distance is a Number in 1/1000 km; an undefined coordinate makes every
\* step NaN, and so does the square root of a negative 1 - a
haversineDistance(lat1, lon1, lat2, lon2) ==
    IF \E v \in {lat1, lon1, lat2, lon2} : ~IsFinite(v) THEN NaN
    ELSE LET a == HaversineA(lat1, lon1, lat2, lon2)
         IN  IF a > Scale THEN NaN
             ELSE LET c == 2 * MathAtan2(MathSqrt(a), MathSqrt(Scale - a))
                  IN  Fin(MulDivR(EarthRadiusKm, c, Scale \div 1000), 1000)

\* findDistance handing the destination's coordinates over in the wrong order
findDistance_SwappedCoordinates(origin, destination) ==
    IF RouteOf(origin).k = "undefined" \/ RouteOf(destination).k = "undefined"
    THEN Null
    ELSE LET o        == RouteOf(origin)
             d        == RouteOf(destination)
             distance == haversineDistance(LatOf(o), LngOf(o), LngOf(d), LatOf(d))
         IN  Round2(distance)

findDistance(origin, destination) ==
    IF RouteOf(origin).k = "undefined" \/ RouteOf(destination).k = "undefined"
    THEN Null
    ELSE LET o        == RouteOf(origin)
             d        == RouteOf(destination)
             distance == haversineDistance(LatOf(o), LngOf(o), LatOf(d), LngOf(d))
         IN  Round2(distance)

\* the UTF-16 code units of the keys of ROUTES_DATA
CodeUnits ==
       ("São Paulo" :> <<83, 227, 111, 32, 80, 97, 117, 108, 111>>)
    @@ ("Rio de Janeiro" :> <<82, 105, 111, 32, 100, 101, 32, 74, 97, 110, 101, 105, 114, 111>>)
    @@ ("Belo Horizonte" :> <<66, 101, 108, 111, 32, 72, 111, 114, 105, 122, 111, 110, 116, 101>>)
    @@ ("Salvador" :> <<83, 97, 108, 118, 97, 100, 111, 114>>)
    @@ ("Brasília" :> <<66, 114, 97, 115, 237, 108, 105, 97>>)
    @@ ("Curitiba" :> <<67, 117, 114, 105, 116, 105, 98, 97>>)
    @@ ("Manaus" :> <<77, 97, 110, 97, 117, 115>>)
    @@ ("Belém" :> <<66, 101, 108, 233, 109>>)
    @@ ("Recife" :> <<82, 101, 99, 105, 102, 101>>)
    @@ ("Fortaleza" :> <<70, 111, 114, 116, 97, 108, 101, 122, 97>>)
    @@ ("Porto Alegre" :> <<80, 111, 114, 116, 111, 32, 65, 108, 101, 103, 114, 101>>)
    @@ ("Goiânia" :> <<71, 111, 105, 226, 110, 105, 97>>)
    @@ ("Campinas" :> <<67, 97, 109, 112, 105, 110, 97, 115>>)
    @@ ("Santos" :> <<83, 97, 110, 116, 111, 115>>)
    @@ ("Sorocaba" :> <<83, 111, 114, 111, 99, 97, 98, 97>>)

\* a < b as strings: the order of the default Array.prototype.sort, by UTF-16
\* code units, a proper prefix first
StringLt(a, b) ==
    \E i \in 1..Len(CodeUnits[b]) :
        /\ \A j \in 1..(i - 1) : j <= Len(CodeUnits[a]) /\ CodeUnits[a][j] = CodeUnits[b][j]
        /\ (i > Len(CodeUnits[a]) \/ CodeUnits[a][i] < CodeUnits[b][i])

\* the sorted array with one more name put in place
RECURSIVE InsertByCodeUnits(_, _)
InsertByCodeUnits(sorted, name) ==
    IF sorted = <<>> THEN <<name>>
    ELSE IF StringLt(name, Head(sorted)) THEN <<name>> \o sorted
    ELSE <<Head(sorted)>> \o InsertByCodeUnits(Tail(sorted), name)

\* names.sort()
RECURSIVE SortByCodeUnits(_)
SortByCodeUnits(names) ==
    IF names = <<>> THEN <<>>
    ELSE InsertByCodeUnits(SortByCodeUnits(SubSeq(names, 1, Len(names) - 1)),
                           names[Len(names)])

getAllCities == SortByCodeUnits(Keys(ROUTES_DATA))

(***************************************************************************)
(* Bounds of the inputs                                                    *)
(***************************************************************************)
MaxTenThousandths == 30

MaxThousandths == 30

MaxHundredths == 120

MaxUnits == 100

MaxTens == 100

MaxSavingsKg == 13

TenThousandths == {Fin(n, 10000) : n \in 0..MaxTenThousandths}

Thousandths == {Fin(n, 1000) : n \in 0..MaxThousandths}

Hundredths == {Fin(n, 100) : n \in 0..MaxHundredths}

Units == {Int2Num(n) : n \in 0..MaxUnits}

Tens == {Int2Num(10 * n) : n \in 0..MaxTens}

\* distances: 0.00 .. 1.20 km by hundredths, 0 .. 100 km by whole km
DistanceInputs == Hundredths \cup Units

\* emission / baseline pairs of calculateSavings
SavingsInputs == Thousandths \cup {Int2Num(n) : n \in 0..MaxSavingsKg}

\* emissions converted to credits: up to 1000 kg
CreditEmissionInputs == Hundredths \cup Units \cup Tens

\* credit counts priced: 0.0000 .. 0.0030 and 0.00 .. 1.20
CreditInputs == TenThousandths \cup Hundredths

\* the configured modes and a key the table does not hold
ModeInputs == {EMISSION_FACTORS[i].key : i \in 1..Len(EMISSION_FACTORS)} \cup {"airplane"}

(***************************************************************************)
(* The calls                                                               *)
(***************************************************************************)
\* no call under way
NoCall == [fn |-> "none", args |-> <<>>]

\* the text of an empty field
EmptyText == [k |-> "empty", n |-> 0, d |-> 1]

\* the label of the submit button
ButtonLabel == "Calcular Emissões"

\* an element without content
NoContent == [k |-> "none"]

\* no callback waiting; a waiting callback carries the values it captured
NoTimer == [pending |-> FALSE, origin |-> "", destination |-> "", distance |-> NaN,
            transportMode |-> ""]

\* the three result sections
ResultSections == {"results-section", "comparison-section", "carbon-credits-section"}

\* the page as loaded: an empty form with the car selected, the button enabled
\* with its label, the result sections hidden and empty, no timer set
InitialPage ==
    /\ originInput = ""
    /\ destinationInput = ""
    /\ distanceInput = [value |-> EmptyText, readOnly |-> FALSE]
    /\ manualCheckbox = [checked |-> FALSE]
    /\ helperText = ""
    /\ transport = "car"
    /\ submitButton = [disabled |-> FALSE, textContent |-> ButtonLabel,
                       originalText |-> ""]
    /\ hidden = ResultSections
    /\ content = [results |-> NoContent, comparison |-> NoContent, credits |-> NoContent]
    /\ timer = NoTimer
    /\ alert = ""
    /\ invoked = <<>>

Init ==
    /\ ROUTES_DATA = InitialRoutesData
    /\ EMISSION_FACTORS = InitialEmissionFactors
    /\ CARBON_CREDIT = InitialCarbonCredit
    /\ call = NoCall
    /\ result = Undefined
    /\ previous = [call |-> NoCall, result |-> Undefined]
    /\ InitialPage

CalculateEmission ==
    \E distanceKm \in DistanceInputs, transportMode \in ModeInputs :
        /\ call.fn = "none"
        /\ call' = [fn |-> "calculateEmission", args |-> <<distanceKm, transportMode>>]
        /\ previous.call \in {NoCall, call'}
        /\ result' = calculateEmission(distanceKm, transportMode)
        /\ UNCHANGED <<tables, previous, form, page>>

\* calculateAllModes sorting the emission-factor table itself, in place
CalculateAllModes_SortsTheTable ==
    \E distanceKm \in DistanceInputs :
        /\ call.fn = "none"
        /\ call' = [fn |-> "calculateAllModes", args |-> <<distanceKm>>]
        /\ previous.call \in {NoCall, call'}
        /\ result' = calculateAllModes(distanceKm)
        /\ EMISSION_FACTORS' =
               [i \in 1..Len(EMISSION_FACTORS) |->
                   [key   |-> calculateAllModes(distanceKm)[i].mode,
                    value |-> OwnValue(EMISSION_FACTORS,
                                       calculateAllModes(distanceKm)[i].mode)]]
        /\ UNCHANGED <<ROUTES_DATA, CARBON_CREDIT, previous, form, page>>

CalculateAllModes ==
    \E distanceKm \in DistanceInputs :
        /\ call.fn = "none"
        /\ call' = [fn |-> "calculateAllModes", args |-> <<distanceKm>>]
        /\ previous.call \in {NoCall, call'}
        /\ result' = calculateAllModes(distanceKm)
        /\ UNCHANGED <<tables, previous, form, page>>

CalculateSavings ==
    \E emission \in SavingsInputs, baselineEmission \in SavingsInputs :
        /\ call.fn = "none"
        /\ call' = [fn |-> "calculateSavings", args |-> <<emission, baselineEmission>>]
        /\ previous.call \in {NoCall, call'}
        /\ result' = calculateSavings(emission, baselineEmission)
        /\ UNCHANGED <<tables, previous, form, page>>

CalculateCarbonCredits ==
    \E emissionKg \in CreditEmissionInputs :
        /\ call.fn = "none"
        /\ call' = [fn |-> "calculateCarbonCredits", args |-> <<emissionKg>>]
        /\ previous.call \in {NoCall, call'}
        /\ result' = calculateCarbonCredits(emissionKg)
        /\ UNCHANGED <<tables, previous, form, page>>

EstimateCreditPrice ==
    \E credits \in CreditInputs :
        /\ call.fn = "none"
        /\ call' = [fn |-> "estimateCreditPrice", args |-> <<credits>>]
        /\ previous.call \in {NoCall, call'}
        /\ result' = estimateCreditPrice(credits)
        /\ UNCHANGED <<tables, previous, form, page>>

\* the submit handler's credits step: credits needed for the emission, then
\* their price
creditsData(selectedModeEmission) ==
    LET creditsNeeded == calculateCarbonCredits(selectedModeEmission)
        creditsPrice  == estimateCreditPrice(creditsNeeded)
    IN  [credits |-> creditsNeeded, price |-> creditsPrice,
         emission |-> selectedModeEmission]

CreditsData ==
    \E selectedModeEmission \in CreditEmissionInputs :
        /\ call.fn = "none"
        /\ call' = [fn |-> "creditsData", args |-> <<selectedModeEmission>>]
        /\ previous.call \in {NoCall, call'}
        /\ result' = creditsData(selectedModeEmission)
        /\ UNCHANGED <<tables, previous, form, page>>

\* the caller takes the result: the engine is stateless between calls
Return ==
    /\ call.fn # "none"
    /\ call' = [fn |-> "none", args |-> <<>>]
    /\ result' = Undefined
    /\ UNCHANGED <<tables, previous, form, page>>

\* the caller takes the result and keeps it, to make the same call again:
\* every call above is then that call (previous.call \in {NoCall, call'})
ReturnAndKeep ==
    /\ call.fn # "none"
    /\ previous.call = NoCall
    /\ previous' = [call |-> call, result |-> result]
    /\ call' = NoCall
    /\ result' = Undefined
    /\ UNCHANGED <<tables, form, page>>

\* city names typed by a caller: the registry's keys, names it does not hold
\* (unknown, other case, no accent, untrimmed, empty) and property names of
\* Object.prototype
CityInputs ==
    {ROUTES_DATA[i].key : i \in 1..Len(ROUTES_DATA)}
        \cup {"", "Atlantis", "são paulo", "Sao Paulo", " São Paulo"}
        \cup {"constructor", "toString"}

FindDistance ==
    \E origin \in CityInputs, destination \in CityInputs :
        /\ call.fn = "none"
        /\ call' = [fn |-> "findDistance", args |-> <<origin, destination>>]
        /\ previous.call \in {NoCall, call'}
        /\ result' = findDistance(origin, destination)
        /\ UNCHANGED <<tables, previous, form, page>>

GetAllCities ==
    /\ call.fn = "none"
    /\ call' = [fn |-> "getAllCities", args |-> <<>>]
    /\ previous.call \in {NoCall, call'}
    /\ result' = getAllCities
    /\ UNCHANGED <<tables, previous, form, page>>

(***************************************************************************)
(* The form: texts, and the distance autofill of CONFIG                    *)
(***************************************************************************)
\* the text of a field: a decimal numeral n / d, a decimal numeral followed
\* by letters ("12abc"), letters only ("abc", "NaN") or nothing
Decimal(n, d) == [k |-> "decimal", n |-> Fin(n, d).n, d |-> Fin(n, d).d]

DecimalThenLetters(n, d) == [k |-> "decimalThenLetters", n |-> Fin(n, d).n, d |-> Fin(n, d).d]

Letters == [k |-> "letters", n |-> 0, d |-> 1]

\* String(x), as the assignment of a number to input.value does it
StringOf(x) == IF IsFinite(x) THEN Decimal(x.n, x.d) ELSE Letters

\* parseFloat(text): the number of the leading numeral, NaN without one
parseFloat(text) ==
    IF text.k \in {"decimal", "decimalThenLetters"} THEN Fin(text.n, text.d) ELSE NaN

\* value.trim(), on the texts typed here
Trim(value) ==
    CASE value = " Rio de Janeiro " -> "Rio de Janeiro"
      [] value = " São Paulo"       -> "São Paulo"
      [] value = "   "              -> ""
      [] OTHER                      -> value

\* the helper texts, without their leading symbol
HelpFound == "Rota encontrada automaticamente"

HelpNotFound == "Rota não encontrada. Insira a distância manualmente."

HelpManual == "Modo manual ativado. Insira a distância desejada."

\* attemptAutoFill run while manual mode is checked all the same
attemptAutoFill_IgnoresManual(checked, originValue, destinationValue) ==
    LET origin      == Trim(originValue)
        destination == Trim(destinationValue)
    IN  IF origin = "" \/ destination = ""
        THEN UNCHANGED <<distanceInput, helperText>>
        ELSE \E distance \in {findDistance(origin, destination)} :
                 IF distance # Null
                 THEN /\ distanceInput' = [value |-> StringOf(distance), readOnly |-> TRUE]
                      /\ helperText' = HelpFound
                 ELSE /\ distanceInput' = [value |-> EmptyText, readOnly |-> FALSE]
                      /\ helperText' = HelpNotFound

\* attemptAutoFill, with the checkbox and the two fields as it finds them
attemptAutoFill(checked, originValue, destinationValue) ==
    IF checked THEN UNCHANGED <<distanceInput, helperText>>
    ELSE LET origin      == Trim(originValue)
             destination == Trim(destinationValue)
         IN  IF origin = "" \/ destination = ""
             THEN UNCHANGED <<distanceInput, helperText>>
             ELSE \E distance \in {findDistance(origin, destination)} :
                      IF distance # Null
                      THEN /\ distanceInput' = [value    |-> StringOf(distance),
                                                readOnly |-> TRUE]
                           /\ helperText' = HelpFound
                      ELSE /\ distanceInput' = [value |-> EmptyText, readOnly |-> FALSE]
                           /\ helperText' = HelpNotFound

\* what a user types as a city: nothing, blanks, registered names (with and
\* without blanks around), an unknown name, a property name of Object.prototype
CityTexts == {"", "   ", "São Paulo", " Rio de Janeiro ", "Atlantis", "constructor"}

\* what a user types as a distance
DistanceTexts ==
    {EmptyText, Letters, Decimal(0, 1), Decimal(-5, 1), Decimal(6, 100),
     Decimal(100, 1), DecimalThenLetters(12, 1)}

\* 'change' on the origin input
OriginChange ==
    \E value \in CityTexts \ {originInput} :
        /\ originInput' = value
        /\ attemptAutoFill(manualCheckbox.checked, value, destinationInput)
        /\ UNCHANGED <<destinationInput, manualCheckbox, transport>>
        /\ UNCHANGED <<tables, call, result, previous, page>>

\* 'change' on the destination input
DestinationChange ==
    \E value \in CityTexts \ {destinationInput} :
        /\ destinationInput' = value
        /\ attemptAutoFill(manualCheckbox.checked, originInput, value)
        /\ UNCHANGED <<originInput, manualCheckbox, transport>>
        /\ UNCHANGED <<tables, call, result, previous, page>>

\* 'change' on the manual-distance checkbox
ManualChange ==
    /\ manualCheckbox' = [checked |-> ~manualCheckbox.checked]
    /\ IF manualCheckbox'.checked
       THEN /\ distanceInput' = [distanceInput EXCEPT !.readOnly = FALSE]
            /\ helperText' = HelpManual
       ELSE attemptAutoFill(FALSE, originInput, destinationInput)
    /\ UNCHANGED <<originInput, destinationInput, transport>>
    /\ UNCHANGED <<tables, call, result, previous, page>>

\* the user types a distance: a read-only field takes no typing
DistanceTyped ==
    \E text \in DistanceTexts \ {distanceInput.value} :
        /\ ~distanceInput.readOnly
        /\ distanceInput' = [distanceInput EXCEPT !.value = text]
        /\ UNCHANGED <<originInput, destinationInput, manualCheckbox, helperText,
                       transport>>
        /\ UNCHANGED <<tables, call, result, previous, page>>

AutofillNext ==
    \/ OriginChange
    \/ DestinationChange
    \/ ManualChange
    \/ DistanceTyped

AutofillSpec == Init /\ [][AutofillNext]_vars

(***************************************************************************)
(* UI: formatting, rendering and the loading state                         *)
(***************************************************************************)
\* CONFIG.TRANSPORT_MODES, with the labels (icons and colours left out)
TRANSPORT_MODES ==
    << [key |-> "bicycle", value |-> [label |-> "Bicicleta"]],
       [key |-> "car",     value |-> [label |-> "Carro"]],
       [key |-> "bus",     value |-> [label |-> "Ônibus"]],
       [key |-> "truck",   value |-> [label |-> "Caminhão"]] >>

\* object.field: undefined for a field the object does not have
Get(object, field) == IF field \in DOMAIN object THEN object[field] ELSE Undefined

\* the number that / and * make of an operand
ToNumber(v) == IF IsNumber(v) THEN v ELSE IF v = Null THEN Zero ELSE NaN

\* what !v and v || w take for true, of a number, undefined or null
Truthy(v) == ~(v \in {Undefined, Null, NaN} \/ (IsFinite(v) /\ v.n = 0))

RECURSIVE Pow10(_)
Pow10(decimals) == IF decimals = 0 THEN 1 ELSE 10 * Pow10(decimals - 1)

\* x.toFixed(decimals): the nearest numeral with that many decimals, a tie
\* away from zero; "NaN" for NaN
toFixed(x, decimals) ==
    IF IsFinite(x)
    THEN LET p == Pow10(decimals)
         IN  [k |-> "decimal",
              n |-> Sign(x.n) * ((2 * Abs(x.n) * p + x.d) \div (2 * x.d)),
              d |-> p]
    ELSE Letters

\* UI.formatNumber: the numeral of toFixed in pt-BR notation; "NaN" for what
\* parseFloat does not read as a number (the values here are finite, NaN or
\* undefined)
formatNumber(number, decimals) ==
    LET fixed == toFixed(parseFloat(StringOf(number)), decimals)
    IN  IF IsFinite(parseFloat(fixed))
        THEN [k |-> "pt-BR", n |-> fixed.n, d |-> fixed.d]
        ELSE Letters

\* UI.formatCurrency: the value in BRL with 2 decimals
formatCurrency(value) ==
    IF IsFinite(value)
    THEN [k |-> "BRL", n |-> toFixed(value, 2).n, d |-> toFixed(value, 2).d]
    ELSE Letters

\* the error thrown by a property read on undefined
TypeError == [k |-> "TypeError"]

\* UI.renderResults: the cards of the results section
renderResults(data) ==
    IF ~HasOwn(TRANSPORT_MODES, data.mode) THEN TypeError
    ELSE LET modeMetadata == OwnValue(TRANSPORT_MODES, data.mode)
             savingsCard ==
                 IF data.mode # "car" /\ data.savings # Null
                 THEN LET savedKg     == Get(data.savings, "savedKg")
                          carEmission == Get(data.savings, "carEmission")
                      IN  [amount |-> formatNumber(savedKg, 2),
                           percentage |->
                               toFixed(Mul(Div(ToNumber(savedKg), ToNumber(carEmission)),
                                           Hundred), 1)]
                 ELSE NoContent
         IN  [origin      |-> data.origin,
              destination |-> data.destination,
              distance    |-> formatNumber(data.distance, 2),
              emission    |-> formatNumber(data.emission, 2),
              mode        |-> modeMetadata.label,
              savings     |-> savingsCard]

\* Math.max of the emissions of the array
RECURSIVE MaxEmission(_)
MaxEmission(modesArray) ==
    IF modesArray = <<>> THEN Infinity(-1)
    ELSE LET head == modesArray[1].emission
             rest == MaxEmission(Tail(modesArray))
         IN  IF IsNaN(head) \/ IsNaN(rest) THEN NaN
             ELSE IF Lt(head, rest) THEN rest ELSE head

\* UI.renderComparison: one item for each mode of the array
renderComparison(modesArray, selectedMode) ==
    LET maxEmission == MaxEmission(modesArray)
        carEmission ==
            IF \E i \in 1..Len(modesArray) : modesArray[i].mode = "car"
            THEN modesArray[CHOOSE i \in 1..Len(modesArray) :
                               modesArray[i].mode = "car"].emission
            ELSE Zero
        item(modeData) ==
            LET modeMetadata  == OwnValue(TRANSPORT_MODES, modeData.mode)
                barPercentage == Mul(Div(modeData.emission, maxEmission), Hundred)
            IN  [label    |-> modeMetadata.label,
                 selected |-> modeData.mode = selectedMode,
                 emission |-> formatNumber(modeData.emission, 2),
                 vsCar    |-> IF Gt(carEmission, Zero)
                              THEN toFixed(Mul(Div(modeData.emission, carEmission),
                                               Hundred), 1)
                              ELSE Decimal(0, 1),
                 barColor |-> IF Gt(barPercentage, Int2Num(25))
                                 /\ ~Gt(barPercentage, Int2Num(75))
                              THEN "yellow"
                              ELSE IF Gt(barPercentage, Int2Num(75))
                                      /\ ~Gt(barPercentage, Hundred)
                              THEN "orange"
                              ELSE IF Gt(barPercentage, Hundred) THEN "red"
                              ELSE "green",
                 barWidth |-> StringOf(IF Gt(barPercentage, Hundred) THEN Hundred
                                       ELSE barPercentage)]
    IN  IF \E i \in 1..Len(modesArray) : ~HasOwn(TRANSPORT_MODES, modesArray[i].mode)
        THEN TypeError
        ELSE [i \in 1..Len(modesArray) |-> item(modesArray[i])]

\* UI.renderCarbonCredits: the credits, their price and the equivalences
renderCarbonCredits(data) ==
    LET creditsNeeded == IF Truthy(data.credits) THEN data.credits ELSE Zero
        priceData     == data.price
        emission      == IF Truthy(data.emission) THEN data.emission ELSE Zero
    IN  [credits  |-> formatNumber(creditsNeeded, 2),
         average  |-> formatCurrency(priceData.average),
         min      |-> formatCurrency(priceData.min),
         max      |-> formatCurrency(priceData.max),
         trees    |-> formatNumber(Div(emission, Int2Num(12)), 1),
         mwh      |-> formatNumber(Div(Mul(emission, Fin(25, 100)), Int2Num(1000)), 2),
         carKm    |-> formatNumber(Div(emission, Fin(2, 10)), 0)]

\* UI.showLoading: the label kept in dataset.originalText, the button disabled,
\* spinner and text in its place
showLoading(buttonElement) ==
    [disabled     |-> TRUE,
     textContent  |-> " Calculando...",
     originalText |-> buttonElement.textContent]

\* hideLoading that puts the text back and leaves the button disabled
hideLoading_LeavesDisabled(buttonElement) ==
    [buttonElement EXCEPT
        !.textContent = IF buttonElement.originalText # ""
                        THEN buttonElement.originalText ELSE "Calcular"]

\* UI.hideLoading: the button enabled, its text dataset.originalText || 'Calcular'
hideLoading(buttonElement) ==
    [buttonElement EXCEPT
        !.disabled    = FALSE,
        !.textContent = IF buttonElement.originalText # ""
                        THEN buttonElement.originalText ELSE "Calcular"]

(***************************************************************************)
(* The submit handler of the form                                          *)
(***************************************************************************)
\* the alerts, without their leading symbol
ValidationAlert ==
    "Por favor, preencha todos os campos com valores válidos. A distância deve ser maior que 0."

ErrorAlert == "Ocorreu um erro ao processar sua solicitação. Por favor, tente novamente."

\* the validation without the test distance <= 0
Rejected_NegativeAccepted(origin, destination, distance) ==
    origin = "" \/ destination = "" \/ ~Truthy(distance)

\* step 2 of handleFormSubmit:
\* !origin || !destination || !distance || distance <= 0
Rejected(origin, destination, distance) ==
    \/ origin = ""
    \/ destination = ""
    \/ ~Truthy(distance)
    \/ Lt(distance, Zero) \/ distance = Zero

\* what is typed and picked in the form before a submission
SubmitOrigins == {"   ", " São Paulo"}

SubmitDestinations == {"", "Rio de Janeiro"}

SubmitDistances ==
    {EmptyText, Letters, Decimal(0, 1), Decimal(-5, 1), Decimal(6, 100), Decimal(100, 1)}

SubmitModes == {"car", "bus", "airplane"}

\* the user fills in the form, a field at a time: the four values the submit
\* handler reads
FillForm ==
    /\ \/ \E origin \in SubmitOrigins \ {originInput} :
            /\ originInput' = origin
            /\ UNCHANGED <<destinationInput, distanceInput, transport>>
       \/ \E destination \in SubmitDestinations \ {destinationInput} :
            /\ destinationInput' = destination
            /\ UNCHANGED <<originInput, distanceInput, transport>>
       \/ \E text \in SubmitDistances \ {distanceInput.value} :
            /\ distanceInput' = [distanceInput EXCEPT !.value = text]
            /\ UNCHANGED <<originInput, destinationInput, transport>>
       \/ \E mode \in SubmitModes \ {transport} :
            /\ transport' = mode
            /\ UNCHANGED <<originInput, destinationInput, distanceInput>>
    /\ UNCHANGED <<manualCheckbox, helperText>>
    /\ UNCHANGED <<tables, call, result, previous, page>>

\* handleFormSubmit up to setTimeout.  The submit event reaches the form only
\* while its submit button is enabled.
HandleFormSubmit ==
    /\ ~submitButton.disabled
    /\ LET origin        == Trim(originInput)
           destination   == Trim(destinationInput)
           distance      == parseFloat(distanceInput.value)
           transportMode == transport
       IN  IF Rejected(origin, destination, distance)
           THEN /\ alert' = ValidationAlert
                /\ UNCHANGED <<submitButton, hidden, content, timer, invoked>>
           ELSE /\ submitButton' = showLoading(submitButton)
                /\ hidden' = hidden \cup ResultSections
                /\ timer' = [pending       |-> TRUE,
                             origin        |-> origin,
                             destination   |-> destination,
                             distance      |-> distance,
                             transportMode |-> transportMode]
                /\ alert' = ""
                /\ UNCHANGED <<content, invoked>>
    /\ UNCHANGED <<tables, call, result, previous, form>>

\* the callback of setTimeout: the calculations, the rendering, the sections
\* shown and the loading state taken back; the alert of the catch block when
\* a rendering throws
TimerCallback ==
    /\ timer.pending
    /\ \E distance \in {timer.distance}, transportMode \in {timer.transportMode} :
       \E selectedModeEmission \in {calculateEmission(distance, transportMode)},
          carEmission \in {calculateEmission(distance, "car")},
          allModesComparison \in {calculateAllModes(distance)} :
       \E savings \in {IF transportMode # "car"
                       THEN [emission    |-> Sub(carEmission, selectedModeEmission),
                             carEmission |-> carEmission]
                       ELSE Null},
          credits \in {creditsData(selectedModeEmission)} :
       \E resultsData \in {[origin      |-> timer.origin,
                            destination |-> timer.destination,
                            distance    |-> distance,
                            emission    |-> selectedModeEmission,
                            mode        |-> transportMode,
                            savings     |-> savings]} :
       \E resultsHTML \in {renderResults(resultsData)},
          comparisonHTML \in {renderComparison(allModesComparison, transportMode)},
          creditsHTML \in {renderCarbonCredits(credits)} :
           /\ invoked' =
                << [fn |-> "calculateEmission", args |-> <<distance, transportMode>>],
                   [fn |-> "calculateEmission", args |-> <<distance, "car">>],
                   [fn |-> "calculateAllModes", args |-> <<distance>>],
                   [fn |-> "calculateCarbonCredits", args |-> <<selectedModeEmission>>],
                   [fn |-> "estimateCreditPrice", args |-> <<credits.credits>>] >>
           /\ IF resultsHTML = TypeError
              THEN /\ alert' = ErrorAlert
                   /\ submitButton' = hideLoading(submitButton)
                   /\ UNCHANGED <<hidden, content>>
              ELSE IF comparisonHTML = TypeError
              THEN /\ content' = [content EXCEPT !.results = resultsHTML]
                   /\ alert' = ErrorAlert
                   /\ submitButton' = hideLoading(submitButton)
                   /\ UNCHANGED hidden
              ELSE /\ content' = [results    |-> resultsHTML,
                                  comparison |-> comparisonHTML,
                                  credits    |-> creditsHTML]
                   /\ hidden' = hidden \ ResultSections
                   /\ submitButton' = hideLoading(submitButton)
                   /\ alert' = ""
    /\ timer' = NoTimer
    /\ UNCHANGED <<tables, call, result, previous, form>>

SubmitNext ==
    \/ FillForm
    \/ HandleFormSubmit
    \/ TimerCallback

SubmitSpec == Init /\ [][SubmitNext]_vars

\* the callback of a waiting timer is run
TimerRuns == timer.pending /\ timer' = NoTimer

\* setTimeout runs the callback once its 1.5 s have passed: a timer does not
\* stay waiting for ever (TimerCallback is the one step that ends the wait)
FairSubmitSpec == SubmitSpec /\ WF_timer(TimerRuns)

RoutesNext ==
    \/ FindDistance
    \/ GetAllCities
    \/ Return
    \/ ReturnAndKeep

RoutesSpec == Init /\ [][RoutesNext]_vars

CalcNext ==
    \/ CalculateEmission
    \/ CalculateAllModes
    \/ CalculateSavings
    \/ CalculateCarbonCredits
    \/ EstimateCreditPrice
    \/ CreditsData
    \/ Return
    \/ ReturnAndKeep

CalcSpec == Init /\ [][CalcNext]_vars

\* every operation of RoutesDB and of Calculator, in any order
EngineNext ==
    \/ FindDistance
    \/ GetAllCities
    \/ CalculateEmission
    \/ CalculateAllModes
    \/ CalculateSavings
    \/ CalculateCarbonCredits
    \/ EstimateCreditPrice
    \/ CreditsData
    \/ Return
    \/ ReturnAndKeep

EngineSpec == Init /\ [][EngineNext]_vars

(***************************************************************************)
(* Properties of the calculator                                            *)
(***************************************************************************)
\* x is a whole number of hundredths
IsHundredths(x) == IsFinite(x) /\ 100 % x.d = 0

\* x in hundredths, for x with IsHundredths(x)
InHundredths(x) == x.n * (100 \div x.d)

\* | r - p / q | <= 1/2, for integers r, p and q > 0
WithinHalf(r, p, q) == 2 * Abs(r * q - p) <= q

\* a <= b on finite numbers
Leq(a, b) == a.n * b.d <= b.n * a.d

\* C4: calculateEmission(distanceKm, mode), for distanceKm >= 0 and a mode of
\* the emission-factor table, returns a whole number of hundredths within
\* half a hundredth of distanceKm * factor[mode]; 100 km by car gives 12.00;
\* a mode whose factor is 0 gives exactly 0 for every distance.
C4_EmissionIsRoundedProduct ==
    (call.fn = "calculateEmission" /\ HasOwn(EMISSION_FACTORS, call.args[2])) =>
        LET distanceKm == call.args[1]
            factor     == OwnValue(EMISSION_FACTORS, call.args[2])
        IN  /\ IsHundredths(result)
            /\ WithinHalf(InHundredths(result),
                          100 * distanceKm.n * factor.n, distanceKm.d * factor.d)
            /\ (factor = Zero => result = Zero)
            /\ (distanceKm = Int2Num(100) /\ call.args[2] = "car"
                    => result = Int2Num(12))

\* 0.05 km by car: 0.006 kg, returned as 0.01
C4_Witness ==
    /\ call.fn = "calculateEmission"
    /\ call.args = <<Fin(5, 100), "car">>
    /\ result = Fin(1, 100)

\* C5: for any distance > 0, calculateAllModes returns exactly one entry per
\* configured mode, each entry's emission <= the next entry's, and every
\* zero-factor mode before every mode whose factor is positive.
C5_AllModesSortedZeroFirst ==
    (call.fn = "calculateAllModes" /\ Gt(call.args[1], Zero)) =>
        /\ Len(result) = Len(EMISSION_FACTORS)
        /\ \A i \in 1..Len(EMISSION_FACTORS) :
               Cardinality({j \in 1..Len(result) :
                               result[j].mode = EMISSION_FACTORS[i].key}) = 1
        /\ \A j \in 1..(Len(result) - 1) :
               /\ IsFinite(result[j].emission)
               /\ IsFinite(result[j + 1].emission)
               /\ Leq(result[j].emission, result[j + 1].emission)
        /\ \A i, j \in 1..Len(result) :
               (/\ OwnValue(EMISSION_FACTORS, result[i].mode) = Zero
                /\ Gt(OwnValue(EMISSION_FACTORS, result[j].mode), Zero)) => i < j

\* 0.01 km: bicycle, car and bus all emit 0.00 and the bicycle stays first
C5_Witness ==
    /\ call.fn = "calculateAllModes"
    /\ call.args = <<Fin(1, 100)>>
    /\ Len(result) = 4
    /\ result[1].mode = "bicycle"
    /\ result[2].mode = "car"
    /\ result[2].emission = Zero
    /\ result[4].mode = "truck"

\* the entry of the car in a calculateAllModes result
CarEntry(entries) == entries[CHOOSE j \in 1..Len(entries) : entries[j].mode = "car"]

C7_ZeroBaselinePercentageFinite ==
    /\ (call.fn = "calculateSavings" /\ call.args[2] = Zero)
           => IsFinite(result.percentage)
    /\ (call.fn = "calculateAllModes" /\ CarEntry(result).emission = Zero)
           => \A j \in 1..Len(result) : IsFinite(result[j].percentageVsCar)

\* C8 as claimed: savedKg > 0 exactly when emission < baseline, for all
\* non-negative emission and baseline; calculateSavings(12, 12) is {0, 0}.
C8_SavedPositiveIffLess ==
    call.fn = "calculateSavings" =>
        /\ Gt(result.savedKg, Zero) <=> Lt(call.args[1], call.args[2])
        /\ (call.args = <<Int2Num(12), Int2Num(12)>>
                => result = [savedKg |-> Zero, percentage |-> Zero])

\* C8: savedKg > 0 only if emission < baseline; for emission and baseline
\* that are whole hundredths of a kg (what calculateEmission returns), savedKg
\* > 0 exactly when emission < baseline; calculateSavings(12, 12) is {0, 0}.
C8_SavedPositiveIffLessOnHundredths ==
    call.fn = "calculateSavings" =>
        /\ Gt(result.savedKg, Zero) => Lt(call.args[1], call.args[2])
        /\ (IsHundredths(call.args[1]) /\ IsHundredths(call.args[2]))
               => (Gt(result.savedKg, Zero) <=> Lt(call.args[1], call.args[2]))
        /\ (call.args = <<Int2Num(12), Int2Num(12)>>
                => result = [savedKg |-> Zero, percentage |-> Zero])

\* 0.01 kg against a baseline of 0.02 kg saves 0.01 kg, 50 %
C8_Witness ==
    /\ call.fn = "calculateSavings"
    /\ call.args = <<Fin(1, 100), Fin(2, 100)>>
    /\ result = [savedKg |-> Fin(1, 100), percentage |-> Int2Num(50)]

\* C9: estimateCreditPrice(credits) returns min, max and average as whole
\* hundredths, each within half a hundredth of its own unrounded value:
\* credits * PRICE_MIN, credits * PRICE_MAX and their mean (not the mean of
\* the rounded min and max); estimateCreditPrice(1) is {50, 150, 100}.
C9_PriceRoundedIndependently ==
    call.fn = "estimateCreditPrice" =>
        LET credits == call.args[1]
            pmin    == CARBON_CREDIT.PRICE_MIN_BRL.n
            pmax    == CARBON_CREDIT.PRICE_MAX_BRL.n
        IN  /\ IsHundredths(result.min)
            /\ IsHundredths(result.max)
            /\ IsHundredths(result.average)
            /\ WithinHalf(InHundredths(result.min), 100 * pmin * credits.n, credits.d)
            /\ WithinHalf(InHundredths(result.max), 100 * pmax * credits.n, credits.d)
            /\ WithinHalf(InHundredths(result.average),
                          100 * (pmin + pmax) * credits.n, 2 * credits.d)
            /\ (credits = Int2Num(1) =>
                   result = [min |-> Int2Num(50), max |-> Int2Num(150),
                             average |-> Int2Num(100)])

\* 0.0001 credit: min 0.005 -> 0.01, max 0.015 -> 0.02, average 0.01 -> 0.01,
\* where the mean of the rounded min and max (0.015) would round to 0.02
C9_Witness ==
    /\ call.fn = "estimateCreditPrice"
    /\ call.args = <<Fin(1, 10000)>>
    /\ result = [min |-> Fin(1, 100), max |-> Fin(2, 100), average |-> Fin(1, 100)]

\* C10: for every non-negative emissionKg, the price p of
\* calculateCarbonCredits(emissionKg) credits has p.min <= p.average <= p.max.
C10_AverageBetweenMinAndMax ==
    call.fn = "creditsData" =>
        /\ IsFinite(result.price.min)
        /\ IsFinite(result.price.average)
        /\ IsFinite(result.price.max)
        /\ Leq(result.price.min, result.price.average)
        /\ Leq(result.price.average, result.price.max)

\* 1000 kg is one credit, priced 50 <= 100 <= 150
C10_Witness ==
    /\ call.fn = "creditsData"
    /\ call.args = <<Int2Num(1000)>>
    /\ result.credits = Int2Num(1)
    /\ result.price = [min |-> Int2Num(50), max |-> Int2Num(150),
                       average |-> Int2Num(100)]

\* C11: calculateCarbonCredits(emissionKg), for emissionKg >= 0, returns a
\* whole number of hundredths within half a hundredth of emissionKg /
\* KG_PER_CREDIT; 1000 kg gives 1.00; no smaller emission gives more credits.
C11_CreditsRoundedQuotientMonotone ==
    call.fn = "calculateCarbonCredits" =>
        LET emissionKg == call.args[1]
            perCredit  == CARBON_CREDIT.KG_PER_CREDIT.n
        IN  /\ IsHundredths(result)
            /\ WithinHalf(InHundredths(result),
                          100 * emissionKg.n, emissionKg.d * perCredit)
            /\ (emissionKg = Int2Num(1000) => result = Int2Num(1))
            /\ \A smaller \in CreditEmissionInputs :
                   Leq(smaller, emissionKg)
                       => Leq(calculateCarbonCredits(smaller), result)

\* 6 kg: 0.006 credit, returned as 0.01
C11_Witness ==
    /\ call.fn = "calculateCarbonCredits"
    /\ call.args = <<Int2Num(6)>>
    /\ result = Fin(1, 100)

\* C12: for every distance d >= 0 and every mode whose factor is > 0,
\* calculateEmission(2 * d, mode) and 2 * calculateEmission(d, mode) differ
\* by at most 0.01.
C12_DoublingWithinHundredth ==
    (/\ call.fn = "calculateEmission"
     /\ HasOwn(EMISSION_FACTORS, call.args[2])
     /\ Gt(OwnValue(EMISSION_FACTORS, call.args[2]), Zero)) =>
        LET doubled == calculateEmission(Mul(Int2Num(2), call.args[1]), call.args[2])
            twice   == Mul(Int2Num(2), result)
        IN  /\ IsFinite(doubled)
            /\ IsFinite(twice)
            /\ Leq(Sub(doubled, twice), Fin(1, 100))
            /\ Leq(Sub(twice, doubled), Fin(1, 100))

\* 0.06 km by bus: 0.00534 kg gives 0.01, and 0.12 km: 0.01068 kg gives 0.01,
\* one hundredth less than twice 0.01
C12_Witness ==
    /\ call.fn = "calculateEmission"
    /\ call.args = <<Fin(6, 100), "bus">>
    /\ result = Fin(1, 100)
    /\ calculateEmission(Fin(12, 100), "bus") = Fin(1, 100)

(***************************************************************************)
(* Properties of the city registry                                         *)
(***************************************************************************)
\* C1: findDistance(origin, destination) returns null whenever origin or
\* destination is not a key of the registry, and returns a number only when
\* both are keys of the registry.
C1_NullUnlessBothRegistered ==
    call.fn = "findDistance" =>
        LET registered == HasOwn(ROUTES_DATA, call.args[1])
                              /\ HasOwn(ROUTES_DATA, call.args[2])
        IN  /\ ~registered => result = Null
            /\ IsNumber(result) => registered

\* C2: for registered cities A and B, findDistance(A, B) = findDistance(B, A).
C2_DistanceSymmetric ==
    (/\ call.fn = "findDistance"
     /\ HasOwn(ROUTES_DATA, call.args[1])
     /\ HasOwn(ROUTES_DATA, call.args[2])) =>
        /\ IsFinite(result)
        /\ result = findDistance(call.args[2], call.args[1])

\* São Paulo to Rio de Janeiro: some 360 km
C2_Witness ==
    /\ call.fn = "findDistance"
    /\ call.args = <<"São Paulo", "Rio de Janeiro">>
    /\ IsFinite(result)
    /\ Gt(result, Int2Num(360))
    /\ Lt(result, Int2Num(361))

\* C3: for every registered city A, findDistance(A, A) is exactly 0.
C3_SelfDistanceZero ==
    (/\ call.fn = "findDistance"
     /\ HasOwn(ROUTES_DATA, call.args[1])
     /\ call.args[2] = call.args[1]) => result = Zero

\* Manaus to Manaus
C3_Witness ==
    /\ call.fn = "findDistance"
    /\ call.args = <<"Manaus", "Manaus">>
    /\ result = Zero

\* the letter of a code unit in the alphabet: capitals and accented letters
\* (a-circumflex 226, a-tilde 227, e-acute 233, i-acute 237) as their plain
\* small letter
BaseLetter(c) ==
    IF c \in 65..90 THEN c + 32
    ELSE IF c \in {226, 227} THEN 97
    ELSE IF c = 233 THEN 101
    ELSE IF c = 237 THEN 105
    ELSE c

BaseLetters(name) == [i \in 1..Len(CodeUnits[name]) |-> BaseLetter(CodeUnits[name][i])]

\* a before b in alphabetical order
AlphabeticalLt(a, b) ==
    \E i \in 1..Len(BaseLetters(b)) :
        /\ \A j \in 1..(i - 1) : j <= Len(BaseLetters(a)) /\ BaseLetters(a)[j] = BaseLetters(b)[j]
        /\ (i > Len(BaseLetters(a)) \/ BaseLetters(a)[i] < BaseLetters(b)[i])

\* C13: getAllCities returns every key of the registry exactly once, in
\* alphabetical order of the city names (accented names included), and leaves
\* the registry unchanged.
C13_EveryKeyOnceAlphabetical ==
    call.fn = "getAllCities" =>
        /\ Len(result) = Len(ROUTES_DATA)
        /\ \A i \in 1..Len(ROUTES_DATA) :
               Cardinality({j \in 1..Len(result) : result[j] = ROUTES_DATA[i].key}) = 1
        /\ \A j \in 1..(Len(result) - 1) : AlphabeticalLt(result[j], result[j + 1])
        /\ ROUTES_DATA = InitialRoutesData

\* what getAllCities does give: every key exactly once, in the order of the
\* UTF-16 code units, the registry unchanged
GetAllCitiesEveryKeyOnceByCodeUnits ==
    call.fn = "getAllCities" =>
        /\ Len(result) = Len(ROUTES_DATA)
        /\ \A i \in 1..Len(ROUTES_DATA) :
               Cardinality({j \in 1..Len(result) : result[j] = ROUTES_DATA[i].key}) = 1
        /\ \A j \in 1..(Len(result) - 1) : StringLt(result[j], result[j + 1])
        /\ ROUTES_DATA = InitialRoutesData
        /\ result[1] = "Belo Horizonte"
        /\ result[2] = "Belém"
        /\ result[14] = "Sorocaba"
        /\ result[15] = "São Paulo"

\* C14: after any sequence of calls of findDistance, getAllCities,
\* calculateEmission, calculateAllModes, calculateSavings,
\* calculateCarbonCredits and estimateCreditPrice, the emission-factor table,
\* the carbon-credit constants and the city registry are as at startup, and a
\* call made again returns what it returned before.
C14_TablesKeptCallsRepeatable ==
    /\ ROUTES_DATA = InitialRoutesData
    /\ EMISSION_FACTORS = InitialEmissionFactors
    /\ CARBON_CREDIT = InitialCarbonCredit
    /\ (call # NoCall /\ previous.call = call) => result = previous.result

\* calculateAllModes(100) made a second time
C14_Witness ==
    /\ call = [fn |-> "calculateAllModes", args |-> <<Int2Num(100)>>]
    /\ previous.call = call
    /\ Len(previous.result) = 4
    /\ result[2].mode = "bus"

(***************************************************************************)
(* Properties of the distance autofill                                     *)
(***************************************************************************)
\* the distance field shows the distance between the cities now entered
ShowsCurrentDistance ==
    LET distance == findDistance(Trim(originInput), Trim(destinationInput))
    IN  IsNumber(distance) /\ distanceInput.value = StringOf(distance)

\* a change of the origin or of the destination in manual mode leaves the
\* distance field as it is
ManualModeKeepsDistance ==
    (/\ manualCheckbox.checked
     /\ manualCheckbox'.checked
     /\ (originInput' # originInput \/ destinationInput' # destinationInput))
        => distanceInput' = distanceInput

\* C17 as claimed: after any sequence of origin changes, destination changes
\* and manual-checkbox toggles, the distance field is read-only only if manual
\* mode is unchecked and its value is findDistance of the (trimmed) origin and
\* destination now entered; while manual mode is checked the field is
\* editable and autofill never overwrites it.
C17_ReadOnlyOnlyWithCurrentDistance ==
    /\ [](distanceInput.readOnly
             => (~manualCheckbox.checked /\ ShowsCurrentDistance))
    /\ [](manualCheckbox.checked => ~distanceInput.readOnly)
    /\ [][ManualModeKeepsDistance]_vars

\* C17: the distance field is read-only only if manual mode is unchecked and,
\* when the (trimmed) origin and destination now entered are both non-empty,
\* its value is findDistance of them; with one of them emptied it keeps the
\* distance filled in before.  While manual mode is checked the field is
\* editable and autofill never overwrites it.
C17_ReadOnlyOnlyWithDistanceOfFilledRoute ==
    /\ [](distanceInput.readOnly
             => /\ ~manualCheckbox.checked
                /\ distanceInput.value # EmptyText
                /\ (Trim(originInput) # "" /\ Trim(destinationInput) # "")
                       => ShowsCurrentDistance)
    /\ [](manualCheckbox.checked => ~distanceInput.readOnly)
    /\ [][ManualModeKeepsDistance]_vars

\* Sao Paulo to Rio de Janeiro filled in, then the origin emptied: the field
\* is still read-only and still shows the distance
C17_Witness ==
    /\ Trim(originInput) = ""
    /\ destinationInput = " Rio de Janeiro "
    /\ distanceInput.readOnly
    /\ distanceInput.value = StringOf(findDistance("São Paulo", "Rio de Janeiro"))
    /\ ~manualCheckbox.checked

(***************************************************************************)
(* Properties of the submit handler                                        *)
(***************************************************************************)
\* the form holds a trimmed origin and destination that are non-empty and a
\* distance text that parses to a number above 0
FormValid ==
    /\ Trim(originInput) # ""
    /\ Trim(destinationInput) # ""
    /\ IsFinite(parseFloat(distanceInput.value))
    /\ parseFloat(distanceInput.value).n > 0

\* C15: the submit handler invokes no Calculator operation unless the trimmed
\* origin and destination are non-empty and the parsed distance is a number
\* strictly greater than 0: the delayed calculation is only set up for such a
\* form, with these values, and the Calculator is only called by it, with that
\* distance.  A rejected submission leaves the submit button, the result
\* sections and their content as they are.
C15_CalculatesOnlyForValidForm ==
    /\ [][(~timer.pending /\ timer'.pending)
            => /\ FormValid
               /\ timer'.origin = Trim(originInput)
               /\ timer'.destination = Trim(destinationInput)
               /\ timer'.distance = parseFloat(distanceInput.value)]_vars
    /\ [][invoked' # invoked
            => /\ timer.pending
               /\ timer.origin # "" /\ timer.destination # ""
               /\ IsFinite(timer.distance) /\ timer.distance.n > 0
               /\ invoked'[1].args[1] = timer.distance
               /\ invoked'[2].args[1] = timer.distance
               /\ invoked'[3].args[1] = timer.distance]_vars
    /\ [][(~FormValid /\ ~submitButton.disabled /\ UNCHANGED form)
            => UNCHANGED <<submitButton, hidden, content, timer, invoked>>]_vars

\* results are on display, the distance is changed to -5 and the submission
\* is rejected
C15_Witness ==
    /\ alert = ValidationAlert
    /\ parseFloat(distanceInput.value) = Int2Num(-5)
    /\ Trim(originInput) # "" /\ Trim(destinationInput) # ""
    /\ hidden = {}
    /\ content.results # NoContent
    /\ ~submitButton.disabled
    /\ invoked # <<>>

\* the delayed calculation of a submission with a mode other than car
\* completes and the results are put on display
ResultsShownForOtherMode ==
    /\ timer.pending
    /\ ~timer'.pending
    /\ timer.transportMode # "car"
    /\ hidden' = {}

\* C16: for a submission with a transport mode other than car, the savings
\* card of the results shows savedKg = carEmission - selectedEmission and the
\* percentage (savedKg / carEmission) x 100.
C16_SavingsCardShowsSavedKgAndPercentage ==
    [][ResultsShownForOtherMode
         => LET carEmission      == calculateEmission(timer.distance, "car")
                selectedEmission == calculateEmission(timer.distance, timer.transportMode)
                savedKg          == Sub(carEmission, selectedEmission)
            IN  content'.results.savings =
                    [amount     |-> formatNumber(savedKg, 2),
                     percentage |-> toFixed(Mul(Div(savedKg, carEmission), Hundred), 1)]]_vars

\* what the card shows: the savings object of the submit handler has the
\* fields emission and carEmission, and the card reads savedKg
SavingsCardShowsNaN ==
    [][ResultsShownForOtherMode
         => content'.results.savings = [amount |-> Letters, percentage |-> Letters]]_vars

\* a submission of a valid form is handled
ValidSubmission ==
    /\ FormValid
    /\ ~submitButton.disabled
    /\ UNCHANGED form
    /\ page' # page

\* one of the result sections is taken out of hiding
SectionShown == \E section \in ResultSections : section \in hidden /\ section \notin hidden'

\* C18: every submission that passes validation disables the submit button
\* and hides the three result sections in the same step, and the button is
\* eventually enabled again with its original text once the delayed
\* calculation has run, whether it succeeded or threw; the result sections
\* are shown again only by a calculation that completed without error.
C18_LoadingEndsAndSectionsShownOnlyOnSuccess ==
    /\ [][ValidSubmission
            => /\ submitButton'.disabled
               /\ hidden' = ResultSections
               /\ timer'.pending]_vars
    /\ [](timer.pending <=> submitButton.disabled)
    /\ (submitButton.disabled
           ~> (~submitButton.disabled /\ submitButton.textContent = ButtonLabel))
    /\ [][(timer.pending /\ ~timer'.pending)
            => (~submitButton'.disabled /\ submitButton'.textContent = ButtonLabel)]_vars
    /\ [][SectionShown
            => /\ timer.pending /\ ~timer'.pending
               /\ alert' = ""
               /\ hidden' = {}
               /\ content'.results # NoContent
               /\ content'.results.origin = timer.origin]_vars
    /\ [](alert = ErrorAlert => hidden = ResultSections)

\* results were on display, a submission with a mode unknown to the
\* configuration made the calculation throw: the button is enabled with its
\* label again and the sections stay hidden
C18_Witness ==
    /\ alert = ErrorAlert
    /\ ~submitButton.disabled
    /\ submitButton.textContent = ButtonLabel
    /\ submitButton.originalText = ButtonLabel
    /\ hidden = ResultSections
    /\ content.results # NoContent
    /\ ~timer.pending

====
